---- MODULE Spec2Model ----
(***************************************************************************)
(* Manufacturing asset management (src/app.py): the record store with its  *)
(* three tables, the add-machine and add-product forms, the daily report   *)
(* and the machine monitor with its start/stop buttons and sampling loop.  *)
(*                                                                         *)
(* Every user interaction is one run of the script.  A run is atomic,      *)
(* except the run that enters the sampling loop of monitor_machine: it     *)
(* suspends in time.sleep(1) once per iteration, and other runs interleave *)
(* at that point.  Each such run is a monitoring session, numbered         *)
(* 1..MaxSessions in the order the sessions start.                         *)
(*                                                                         *)
(* The clock `now` counts whole seconds and never goes backwards.          *)
(*                                                                         *)
(* Spec is the whole application.  Its parts are checked apart, which the  *)
(* frame of the actions allows: add_product_page is the one action that    *)
(* reads or writes products (ProductSpec), and daily_report_page the one   *)
(* that writes report_data, which no action reads (ReportSpec adds it to   *)
(* the actions of MonitorSpec).                                            *)
(***************************************************************************)
EXTENDS Integers, Sequences, FiniteSets, TLC

\* ------------------------------------------------------------------ bounds
MaxMachines == 2    \* rows the machines table may hold
MaxProducts == 3    \* rows the products table may hold
MaxSessions == 2    \* monitoring sessions that may be started
MaxClock    == 2    \* the last second of the clock
MaxQuantity == 3    \* the largest value typed into the quantity field
MaxRows     == 2    \* rows the productions table may hold

\* --------------------------------------------------------- program values
None  == -1         \* Python's None (end_time, running_machine after a stop)
Unset == -2         \* st.session_state has no attribute running_machine
SecondsPerHour == 3600

StatusOptions == {"Running", "Idle", "Maintenance"}

Whitespace == {" "}
\* what st.text_input may deliver: strings as sequences of characters
TextInputs == { <<>>, <<" ">>, <<"a", " ">> }

NoMessage           == "none"
MachineNameEmpty    == "Machine name cannot be empty!"
AddedMachine        == "Added machine"
ProductNameEmpty    == "Product name cannot be empty!"
QuantityNotPositive == "Quantity must be greater than 0!"
AddedProduct        == "Added product"
MachineNotFound     == "Machine not found."
NotMonitored        == "This machine is not currently being monitored."
NoReportData        == "No report data available."

Sessions == 1..MaxSessions

VARIABLES
    machines,             \* table machines: row i has id i
    products,             \* table products
    productions,          \* table productions: row i has id i
    running_machine,      \* st.session_state.running_machine
    now,                  \* datetime.now(), in seconds
    pc,                   \* per session: "idle", "sleep" (in time.sleep(1)),
                          \* "wake" (time.sleep(1) has returned) or "done"
    \* per session: the argument and the locals of monitor_machine; the
    \* locals are gone (None, 0) once the run has ended
    machine_id,           \* the machine the session was started on
    start_time,           \* start_time of line 163
    production_quantity,  \* the counter of line 164
    total,                \* the total st.success of line 176 has shown
    session_rows,         \* history: ids of the rows each session inserted
    message,              \* what st.error, st.warning or st.write, or st.success
                          \* of a form, has shown last
    report_data           \* the rows daily_report_page displays

vars == << machines, products, productions, running_machine, now, pc,
           machine_id, start_time, production_quantity, total,
           session_rows, message, report_data >>

store   == << machines, products, productions >>
locals  == << pc, machine_id, start_time, production_quantity, total,
              session_rows >>
display == << message, report_data >>

\* ------------------------------------------------------------ str.strip()
RECURSIVE lstrip(_)
lstrip(s) ==
    IF s = <<>> THEN s
    ELSE IF Head(s) \in Whitespace THEN lstrip(Tail(s)) ELSE s

RECURSIVE rstrip(_)
rstrip(s) ==
    IF s = <<>> THEN s
    ELSE IF s[Len(s)] \in Whitespace THEN rstrip(SubSeq(s, 1, Len(s) - 1)) ELSE s

strip(s) == rstrip(lstrip(s))

\* ------------------------------------------------------------ the models
Machine(name, status) == [name |-> name, status |-> status]

Product(name, price, quantity) ==
    [name |-> name, price |-> price, quantity |-> quantity]

Production(mid, start, end, run, quantity) ==
    [machine_id |-> mid, start_time |-> start, end_time |-> end,
     run_time |-> run, production_quantity |-> quantity]

\* session.query(Machine).get(machine_id): the row, or None
MachineExists(id) == id \in 1..Len(machines)

\* (datetime.now() - start_time).total_seconds() / 3600.0, as a fraction
run_time_hours(start) == [num |-> now - start, den |-> SecondsPerHour]

\* A run may go to sleep only while the clock can still advance and the
\* productions table has room for the row of every run that has begun an
\* iteration, this one included: a run that sleeps can always finish it.
InProgress == Cardinality({p \in Sessions : pc[p] \in {"sleep", "wake"}})

Room == now < MaxClock /\ Len(productions) + InProgress < MaxRows

Init ==
    /\ machines = <<>>
    /\ products = <<>>
    /\ productions = <<>>
    /\ running_machine = Unset
    /\ now = 0
    /\ pc = [p \in Sessions |-> "idle"]
    /\ machine_id = [p \in Sessions |-> None]
    /\ start_time = [p \in Sessions |-> None]
    /\ production_quantity = [p \in Sessions |-> 0]
    /\ total = [p \in Sessions |-> None]
    /\ session_rows = [p \in Sessions |-> <<>>]
    /\ message = NoMessage
    /\ report_data = <<>>

\* ------------------------------------------------------- add_machine_page
\* line 84, mistaken: the name is not stripped before the test
machine_name_is_empty_unstripped(machine_name) == machine_name = <<>>

\* line 84
machine_name_is_empty(machine_name) == strip(machine_name) = <<>>

\* the form submitted with machine_name and machine_status
add_machine_page(machine_name, machine_status) ==
    /\ IF machine_name_is_empty(machine_name)
       THEN /\ message' = MachineNameEmpty
            /\ UNCHANGED machines
       ELSE /\ Len(machines) < MaxMachines
            /\ machines' = Append(machines, Machine(machine_name, machine_status))
            /\ message' = AddedMachine
    /\ report_data' = <<>>
    /\ UNCHANGED << products, productions, running_machine, now, locals >>

\* ------------------------------------------------------- add_product_page
\* line 104, mistaken: zero passes
quantity_is_negative(quantity) == quantity < 0

\* line 104
quantity_is_not_positive(quantity) == quantity <= 0

\* the button pressed with product_name and quantity in the fields
add_product_page(product_name, quantity) ==
    /\ IF strip(product_name) = <<>>
       THEN /\ message' = ProductNameEmpty
            /\ UNCHANGED products
       ELSE IF quantity_is_not_positive(quantity)
       THEN /\ message' = QuantityNotPositive
            /\ UNCHANGED products
       ELSE /\ Len(products) < MaxProducts
            /\ products' = Append(products, Product(product_name, 0, quantity))
            /\ message' = AddedProduct
    /\ report_data' = <<>>
    /\ UNCHANGED << machines, productions, running_machine, now, locals >>

\* ------------------------------------------------------ daily_report_page
\* sum(...) of Python: a left fold from 0
Zero == [num |-> 0, den |-> 1]

AddHours(a, b) ==
    IF a.den = b.den
    THEN [num |-> a.num + b.num, den |-> a.den]
    ELSE [num |-> a.num * b.den + b.num * a.den, den |-> a.den * b.den]

RECURSIVE sum_run_time(_)
sum_run_time(rows) ==
    IF rows = <<>> THEN Zero
    ELSE AddHours(sum_run_time(SubSeq(rows, 1, Len(rows) - 1)),
                  rows[Len(rows)].run_time)

RECURSIVE sum_production_quantity(_)
sum_production_quantity(rows) ==
    IF rows = <<>> THEN 0
    ELSE sum_production_quantity(SubSeq(rows, 1, Len(rows) - 1))
            + rows[Len(rows)].production_quantity

\* line 138, mistaken: the filter is left out
all_productions(id) == productions

\* session.query(Production).filter(Production.machine_id == machine.id).all()
filter_by_machine(id) ==
    SelectSeq(productions, LAMBDA prod : prod.machine_id = id)

report_row(id) ==
    [name |-> machines[id].name,
     total_run_time |-> sum_run_time(filter_by_machine(id)),
     total_production_quantity |-> sum_production_quantity(filter_by_machine(id))]

build_report_data == [id \in 1..Len(machines) |-> report_row(id)]

daily_report_page ==
    /\ report_data' = build_report_data
    /\ message' = IF build_report_data = <<>> THEN NoReportData ELSE NoMessage
    /\ UNCHANGED << store, running_machine, now, locals >>

\* -------------------------------------------------------- monitor_machine
\* the session a new start button press runs in
NextSession == CHOOSE p \in Sessions : pc[p] = "idle" /\ \A q \in 1..(p - 1) : pc[q] # "idle"

\* lines 156-162, mistaken: the machine is recorded as the monitored one
\* before it is looked up
monitor_not_found_recorded(id) ==
    /\ ~MachineExists(id)
    /\ running_machine' = id
    /\ message' = MachineNotFound
    /\ report_data' = <<>>
    /\ UNCHANGED << store, now, locals >>

\* lines 156-159: the machine does not exist
monitor_not_found(id) ==
    /\ ~MachineExists(id)
    /\ message' = MachineNotFound
    /\ report_data' = <<>>
    /\ UNCHANGED << store, running_machine, now, locals >>

\* line 166, mistaken: only "Idle" ends the loop
loop_until_idle(id) == machines[id].status # "Idle"

\* line 166, mistaken: while a sampling loop of the machine is under way the
\* status is not loaded again (a session that does not expire its objects on
\* commit)
loop_on_loaded_status(id) ==
    \/ machines[id].status = "Running"
    \/ \E p \in Sessions : pc[p] \in {"sleep", "wake"} /\ machine_id[p] = id

\* line 166: machine.status, loaded at line 156 and loaded again after each
\* commit (the session expires its objects on commit)
loop_condition(id) == machines[id].status = "Running"

\* line 168, mistaken: the counter is set, not incremented
produce_one(quantity) == 1

\* line 168
produce(quantity) == quantity + 1

\* line 172, mistaken: start_time is taken anew for every row
production_entry_restamped(p) ==
    Production(machine_id[p], now, None, run_time_hours(start_time[p]),
               production_quantity[p])

\* line 172
production_entry(p) ==
    Production(machine_id[p], start_time[p], None,
               run_time_hours(start_time[p]), production_quantity[p])

\* lines 161-169, or 161-166 and 176: the start button.  The run goes on to
\* its first time.sleep(1) or, the machine not Running, shows the total 0
\* and is over.
start_monitoring(id) ==
    /\ MachineExists(id)
    /\ \E q \in Sessions : pc[q] = "idle"
    /\ LET p == NextSession IN
       /\ running_machine' = id
       /\ machine_id' = [machine_id EXCEPT ![p] = id]
       /\ IF loop_condition(id)
          THEN /\ Room
               /\ start_time' = [start_time EXCEPT ![p] = now]
               /\ production_quantity' = [production_quantity EXCEPT ![p] = produce(0)]
               /\ pc' = [pc EXCEPT ![p] = "sleep"]
               /\ UNCHANGED total
          ELSE /\ pc' = [pc EXCEPT ![p] = "done"]
               /\ total' = [total EXCEPT ![p] = 0]
               /\ UNCHANGED << start_time, production_quantity >>
    /\ message' = NoMessage
    /\ report_data' = <<>>
    /\ UNCHANGED << store, now, session_rows >>

\* lines 171-174, then the loop test of line 166 on the committed status and
\* lines 168-169 or line 176: time.sleep(1) has returned in session p
sampling_loop(p) ==
    /\ pc[p] = "wake"
    /\ productions' = Append(productions, production_entry(p))
    /\ session_rows' = [session_rows EXCEPT ![p] = Append(@, Len(productions) + 1)]
    /\ IF loop_condition(machine_id[p])
       THEN /\ Room
            /\ production_quantity' = [production_quantity EXCEPT ![p] = produce(@)]
            /\ pc' = [pc EXCEPT ![p] = "sleep"]
            /\ UNCHANGED << start_time, total >>
       ELSE /\ pc' = [pc EXCEPT ![p] = "done"]
            /\ total' = [total EXCEPT ![p] = production_quantity[p]]
            /\ start_time' = [start_time EXCEPT ![p] = None]
            /\ production_quantity' = [production_quantity EXCEPT ![p] = 0]
    /\ UNCHANGED << machines, products, running_machine, now, machine_id,
                    display >>

\* line 179, mistaken: only hasattr is tested
has_running_machine(id) == running_machine # Unset

\* line 179, mistaken: any machine with a sampling loop under way passes
has_sampling_loop(id) ==
    \E p \in Sessions : pc[p] \in {"sleep", "wake"} /\ machine_id[p] = id

\* line 179
is_running_machine(id) == running_machine # Unset /\ running_machine = id

\* lines 178-184: the stop button
stop_monitoring(id) ==
    /\ MachineExists(id)
    /\ IF is_running_machine(id)
       THEN /\ machines' = [machines EXCEPT ![id].status = "Idle"]
            /\ running_machine' = None
            /\ message' = NoMessage
       ELSE /\ message' = NotMonitored
            /\ UNCHANGED << machines, running_machine >>
    /\ report_data' = <<>>
    /\ UNCHANGED << products, productions, now, locals >>

\* a second passes: every time.sleep(1) under way returns (line 169)
tick ==
    /\ now < MaxClock
    /\ now' = now + 1
    /\ pc' = [p \in Sessions |-> IF pc[p] = "sleep" THEN "wake" ELSE pc[p]]
    /\ UNCHANGED << store, running_machine, machine_id, start_time,
                    production_quantity, total, session_rows, display >>

\* ------------------------------------------------------------ the system
MachineIdInputs == 1..(MaxMachines + 1)
QuantityInputs  == 0..MaxQuantity

AddMachine   == \E n \in TextInputs, s \in StatusOptions : add_machine_page(n, s)
AddProduct   == \E n \in TextInputs, q \in QuantityInputs : add_product_page(n, q)
DailyReport  == daily_report_page
NotFound     == \E id \in MachineIdInputs : monitor_not_found(id)
Start        == \E id \in MachineIdInputs : start_monitoring(id)
Stop         == \E id \in MachineIdInputs : stop_monitoring(id)
SamplingLoop == \E p \in Sessions : sampling_loop(p)
Tick         == tick

\* the machines and the monitor: none of these actions reads products or
\* report_data, and none writes products
MonitorNext ==
    \/ AddMachine
    \/ NotFound
    \/ Start
    \/ Stop
    \/ SamplingLoop
    \/ Tick

Next ==
    \/ AddMachine
    \/ AddProduct
    \/ DailyReport
    \/ NotFound
    \/ Start
    \/ Stop
    \/ SamplingLoop
    \/ Tick

Spec == Init /\ [][Next]_vars

\* the products table: of the tables add_product_page touches only this one
ProductSpec == Init /\ [][AddProduct]_vars

MonitorSpec == Init /\ [][MonitorNext]_vars

\* the machines, the monitor and the report over the rows they leave
ReportSpec == Init /\ [][MonitorNext \/ DailyReport]_vars

\* time passes and a run whose sleep has returned goes on
FairSpec ==
    /\ MonitorSpec
    /\ WF_vars(Tick)
    /\ \A p \in Sessions : WF_vars(sampling_loop(p))

\* ============================================================ properties
Active(p) == pc[p] \in {"sleep", "wake"}

Range(f) == {f[i] : i \in DOMAIN f}

\* the persisted status of the machine session p was started on
StatusOf(p) == machines[machine_id[p]].status

\* the rows session p has inserted, in the order it inserted them
RowsOf(p) == [k \in 1..Len(session_rows[p]) |-> productions[session_rows[p][k]]]

IsPrefix(s, t) == Len(s) <= Len(t) /\ SubSeq(t, 1, Len(s)) = s

\* the rows of every session are numbered 1, 2, ... in production_quantity
\* and carry the session's machine; while an iteration is under way the
\* counter is one ahead of the rows; the total of a session that has ended
\* is the number of its rows; every row of the table belongs to exactly one
\* session
SessionRowsOneToN ==
    /\ \A p \in Sessions :
        /\ \A k \in 1..Len(session_rows[p]) :
            /\ session_rows[p][k] \in 1..Len(productions)
            /\ RowsOf(p)[k].machine_id = machine_id[p]
            /\ RowsOf(p)[k].production_quantity = k
        /\ \A j, k \in 1..Len(session_rows[p]) :
            j < k => session_rows[p][j] < session_rows[p][k]
        /\ pc[p] = "idle" => session_rows[p] = <<>>
        /\ Active(p) => production_quantity[p] = Len(session_rows[p]) + 1
        /\ pc[p] = "done" => total[p] = Len(session_rows[p])
    /\ \A i \in 1..Len(productions) :
        Cardinality({p \in Sessions : i \in Range(session_rows[p])}) = 1

\* C1: a session that has performed N ticks has inserted exactly N rows, all
\* for the machine it was started on, the k-th with production_quantity k;
\* the total it shows when it ends is N.
C1_RowsCountOneToN ==
    /\ []SessionRowsOneToN
    /\ [][\A p \in Sessions :
            (Active(p) /\ pc'[p] = "done")
                => /\ total'[p] = Len(session_rows'[p])
                   /\ Len(session_rows'[p]) = production_quantity[p]]_vars
    /\ [][\A p \in Sessions : pc[p] = "done" => total'[p] = total[p]]_vars

\* a session has ended after two ticks
C1_Witness ==
    \E p \in Sessions :
        /\ pc[p] = "done"
        /\ Len(session_rows[p]) = 2
        /\ total[p] = 2

\* C2: a stop of the machine recorded as the monitored one sets its status
\* to "Idle"; from then on a session of that machine inserts at most one
\* more row, the one of the iteration under way, and ends with it; and the
\* session does end.
C2_StopEndsLoop ==
    /\ [][\A id \in 1..Len(machines) :
            (stop_monitoring(id) /\ running_machine = id)
                => machines'[id].status = "Idle"]_vars
    /\ [][\A p \in Sessions :
            (Active(p) /\ StatusOf(p) # "Running"
                       /\ session_rows'[p] # session_rows[p])
                => /\ Len(session_rows'[p]) = Len(session_rows[p]) + 1
                   /\ pc'[p] = "done"]_vars
    /\ [][\A p \in Sessions :
            pc[p] = "done"
                => pc'[p] = "done" /\ session_rows'[p] = session_rows[p]]_vars
    /\ \A p \in Sessions :
            (Active(p) /\ StatusOf(p) # "Running") ~> (pc[p] = "done")

\* the machine has been stopped while its sampling loop is under way
C2_Witness ==
    \E p \in Sessions :
        /\ Active(p)
        /\ StatusOf(p) = "Idle"
        /\ running_machine = None

\* C3: monitoring a machine id that matches no machine ends with the
\* not-found error and changes neither the store nor running_machine nor any
\* session; no step makes such an id the monitored one, starts a session on
\* it or inserts a row for it.
C3_NotFoundChangesNothing ==
    [][\A id \in 1..(MaxMachines + 1) :
        ~MachineExists(id) =>
            /\ monitor_not_found(id) =>
                /\ message' = MachineNotFound
                /\ UNCHANGED << store, running_machine, locals >>
            /\ running_machine' # id
            /\ \A p \in Sessions : machine_id'[p] # id
            /\ \A i \in 1..Len(productions') : productions'[i].machine_id # id
            /\ ~start_monitoring(id)
            /\ ~stop_monitoring(id)]_vars

\* the not-found error is shown although machines exist
C3_Witness ==
    /\ message = MachineNotFound
    /\ machines # <<>>
    /\ running_machine = Unset
    /\ productions = <<>>

\* the ids of the rows of the productions table that carry machine id
RowIdsOf(id) == {i \in 1..Len(productions) : productions[i].machine_id = id}

RECURSIVE QuantityOver(_)
QuantityOver(S) ==
    IF S = {} THEN 0
    ELSE LET i == CHOOSE x \in S : TRUE
         IN  productions[i].production_quantity + QuantityOver(S \ {i})

RECURSIVE SecondsOver(_)
SecondsOver(S) ==
    IF S = {} THEN 0
    ELSE LET i == CHOOSE x \in S : TRUE
         IN  productions[i].run_time.num + SecondsOver(S \ {i})

\* C4: the report has one entry per machine, in the order of the machines
\* table, with the machine's name, the sum of production_quantity and the
\* sum of run_time over all rows of that machine (0 for a machine without
\* rows); with no machine the report is empty and the notice, not an error,
\* is shown.
C4_ReportSumsAllRows ==
    [][daily_report_page =>
        /\ Len(report_data') = Len(machines)
        /\ \A id \in 1..Len(machines) :
            /\ report_data'[id].name = machines[id].name
            /\ report_data'[id].total_production_quantity
                    = QuantityOver(RowIdsOf(id))
            /\ report_data'[id].total_run_time.num * SecondsPerHour
                    = SecondsOver(RowIdsOf(id))
                        * report_data'[id].total_run_time.den
        /\ \A i \in 1..Len(productions) :
                productions[i].run_time.den = SecondsPerHour
        /\ machines = <<>> => report_data' = <<>> /\ message' = NoReportData
        /\ UNCHANGED store]_vars

\* a report over two machines, one without rows, one with both samples of
\* a session counted
C4_Witness ==
    /\ Len(report_data) = 2
    /\ \E i, j \in 1..2 :
        /\ report_data[i].total_production_quantity = 3
        /\ report_data[i].total_run_time.num >= 3
        /\ report_data[j].total_production_quantity = 0
        /\ report_data[j].total_run_time.num = 0

\* C5: a product submission with quantity <= 0 or a name that is empty once
\* stripped is rejected with an error and leaves the products table as it
\* was; every stored product has quantity > 0 and such a name.
C5_ProductsValid ==
    /\ [][\A n \in TextInputs, q \in QuantityInputs :
            (add_product_page(n, q) /\ (q <= 0 \/ strip(n) = <<>>))
                => /\ products' = products
                   /\ message' \in {ProductNameEmpty, QuantityNotPositive}]_vars
    /\ [](\A i \in 1..Len(products) :
            products[i].quantity > 0 /\ strip(products[i].name) # <<>>)

\* a submission with quantity 0 has been rejected with a product stored
C5_Witness ==
    /\ message = QuantityNotPositive
    /\ Len(products) >= 1

\* the text inputs that are empty once stripped
BlankInputs == {n \in TextInputs : strip(n) = <<>>}

\* C6: every stored machine has a status among Running, Idle, Maintenance
\* and a name that is not empty once stripped; a submission with such an
\* empty name stores no machine.
C6_MachinesValid ==
    /\ [][\A n \in BlankInputs :
            (\E s \in StatusOptions : add_machine_page(n, s))
                => machines' = machines /\ message' = MachineNameEmpty]_vars
    /\ [](\A i \in 1..Len(machines) :
            machines[i].status \in StatusOptions /\ strip(machines[i].name) # <<>>)

\* a machine created Running has been stopped, and a submission with an
\* empty name has been rejected after it
C6_Witness ==
    /\ message = MachineNameEmpty
    /\ running_machine = None
    /\ \E i \in 1..Len(machines) : machines[i].status = "Idle"

\* C7: a stop of a machine that running_machine, unset or not, does not
\* name shows the warning and changes neither a machine nor a row nor
\* running_machine nor a session.
C7_StopOfOtherIsNoOp ==
    [][\A id \in 1..Len(machines) :
        (stop_monitoring(id) /\ running_machine # id)
            => /\ message' = NotMonitored
               /\ UNCHANGED << store, running_machine, locals >>]_vars

\* the second of two stops of the same machine has shown the warning
C7_Witness ==
    /\ message = NotMonitored
    /\ running_machine = None

\* C8: the rows of a session share the start_time of the session and have
\* no end_time; of two of them the later has the larger production_quantity,
\* the later sample time and a run_time that is not smaller; the table only
\* grows at its end.
C8_RowsInSampleOrder ==
    /\ [](\A p \in Sessions :
            /\ \A k \in 1..Len(session_rows[p]) :
                /\ RowsOf(p)[k].end_time = None
                /\ RowsOf(p)[k].start_time = RowsOf(p)[1].start_time
                /\ Active(p) => RowsOf(p)[k].start_time = start_time[p]
                /\ RowsOf(p)[k].run_time.num >= 0
            /\ \A j, k \in 1..Len(session_rows[p]) :
                j < k =>
                    /\ session_rows[p][j] < session_rows[p][k]
                    /\ RowsOf(p)[j].production_quantity
                            < RowsOf(p)[k].production_quantity
                    /\ RowsOf(p)[j].run_time.num <= RowsOf(p)[k].run_time.num
                    /\ RowsOf(p)[j].run_time.den = RowsOf(p)[k].run_time.den
                    /\ RowsOf(p)[j].start_time + RowsOf(p)[j].run_time.num
                            < RowsOf(p)[k].start_time + RowsOf(p)[k].run_time.num)
    /\ [][IsPrefix(productions, productions')]_vars

\* a session has inserted two rows
C8_Witness ==
    \E p \in Sessions :
        /\ Len(session_rows[p]) = 2
        /\ RowsOf(p)[2].run_time.num > RowsOf(p)[1].run_time.num

\* C9: a session ends only with its machine's status other than "Running":
\* a session whose sleep has returned and whose machine is Running inserts
\* its row and sleeps again, with the counter one higher; a session started
\* on a Running machine goes to sleep with counter 1; a session started on
\* a machine that is not Running ends at once, with no row and total 0.
C9_LoopEndsOnlyOnStatus ==
    /\ [][\A p \in Sessions :
            (pc[p] # "done" /\ pc'[p] = "done")
                => machines'[machine_id'[p]].status # "Running"]_vars
    /\ [][\A p \in Sessions :
            (sampling_loop(p) /\ StatusOf(p) = "Running")
                => /\ pc'[p] = "sleep"
                   /\ production_quantity'[p] = production_quantity[p] + 1
                   /\ Len(session_rows'[p]) = Len(session_rows[p]) + 1]_vars
    /\ [][\A id \in 1..Len(machines) :
            start_monitoring(id)
                => IF machines[id].status = "Running"
                   THEN /\ pc'[NextSession] = "sleep"
                        /\ production_quantity'[NextSession] = 1
                   ELSE /\ pc'[NextSession] = "done"
                        /\ total'[NextSession] = 0
                        /\ session_rows'[NextSession] = <<>>
                        /\ productions' = productions]_vars

\* a session started on a machine in maintenance has ended with total 0
C9_Witness ==
    \E p \in Sessions :
        /\ pc[p] = "done"
        /\ total[p] = 0
        /\ session_rows[p] = <<>>
        /\ StatusOf(p) = "Maintenance"

\* C10: the one machine whose status a step can change is the machine
\* running_machine names, and the change is to "Idle".  A start makes its
\* machine the monitored one and touches neither a machine nor a session
\* under way.  With sessions under way on two Running machines A and B and
\* running_machine = B, a stop of A shows the warning and leaves A Running
\* and its session under way; a stop of B sets B to "Idle" and leaves A
\* Running.
C10_OnlyLastStartedStoppable ==
    /\ [][\A id \in 1..Len(machines) :
            machines'[id].status # machines[id].status
                => running_machine = id /\ machines'[id].status = "Idle"]_vars
    /\ [][\A id \in 1..Len(machines) :
            start_monitoring(id)
                => /\ running_machine' = id
                   /\ machines' = machines
                   /\ \A p \in Sessions :
                        Active(p) => /\ pc'[p] = pc[p]
                                     /\ machine_id'[p] = machine_id[p]
                                     /\ production_quantity'[p] = production_quantity[p]]_vars
    /\ [][\A p, q \in Sessions :
            LET A == machine_id[p]
                B == machine_id[q]
            IN  (/\ Active(p) /\ Active(q)
                 /\ A # B
                 /\ StatusOf(p) = "Running" /\ StatusOf(q) = "Running"
                 /\ running_machine = B)
                => /\ stop_monitoring(A)
                        => /\ message' = NotMonitored
                           /\ machines' = machines
                           /\ running_machine' = B
                           /\ pc' = pc
                   /\ stop_monitoring(B)
                        => /\ machines'[B].status = "Idle"
                           /\ machines'[A].status = "Running"
                           /\ pc' = pc]_vars

\* two sessions under way on two Running machines, the stop of the one
\* started first refused
C10_Witness ==
    /\ message = NotMonitored
    /\ Active(1) /\ Active(2)
    /\ machine_id[1] # machine_id[2]
    /\ StatusOf(1) = "Running" /\ StatusOf(2) = "Running"
    /\ running_machine = machine_id[2]

====
